---- MODULE Spec2Model ----
(***************************************************************************)
(* GF(16) arithmetic (f(t) = t^4 + t + 1) and the dynamically sized        *)
(* matrix/vector algebra built on it, as implemented in                    *)
(* src/src/finite_field.rs.                                                *)
(*                                                                         *)
(* A field element is a u8 whose low four bits are the coefficients of a   *)
(* polynomial over GF(2).  A matrix is a Vec<Vec<u8>>: a sequence of rows. *)
(* Rust indexes from 0, TLA+ sequences from 1.                             *)
(***************************************************************************)
EXTENDS Integers, Sequences, FiniteSets

VARIABLES
    op,     \* the operation that has been called ("start": none yet)
    x, y, z,    \* scalar operands (u8)
    a, b, c,    \* matrix operands (Vec<Vec<u8>>)
    vec,    \* vector operand (Vec<u8>)
    out,    \* what the call produced: a field element, or for a matrix
            \* operation the outcome [panic, val, writes]
    steps,  \* the intermediate values of a call of mul
    overflow_checks
            \* the build: TRUE when integer overflow panics (rustc's default,
            \* cargo's dev and test profiles), FALSE when it wraps (release)

vars == <<op, x, y, z, a, b, c, vec, out, steps, overflow_checks>>

(***************************************************************************)
(* u8 machine arithmetic.                                                  *)
(***************************************************************************)

\* Bit i of n.
Bit(n, i) == (n \div (2 ^ i)) % 2

\* x ^ y on u8.
BitXor(m, n) ==
    ((m + n) % 2)
    + 2 * (((m \div 2) + (n \div 2)) % 2)
    + 4 * (((m \div 4) + (n \div 4)) % 2)
    + 8 * (((m \div 8) + (n \div 8)) % 2)
    + 16 * (((m \div 16) + (n \div 16)) % 2)
    + 32 * (((m \div 32) + (n \div 32)) % 2)
    + 64 * (((m \div 64) + (n \div 64)) % 2)
    + 128 * (((m \div 128) + (n \div 128)) % 2)

\* x & y on u8.
BitAnd(m, n) ==
    ((m % 2) * (n % 2))
    + 2 * (((m \div 2) % 2) * ((n \div 2) % 2))
    + 4 * (((m \div 4) % 2) * ((n \div 4) % 2))
    + 8 * (((m \div 8) % 2) * ((n \div 8) % 2))
    + 16 * (((m \div 16) % 2) * ((n \div 16) % 2))
    + 32 * (((m \div 32) % 2) * ((n \div 32) % 2))
    + 64 * (((m \div 64) % 2) * ((n \div 64) % 2))
    + 128 * (((m \div 128) % 2) * ((n \div 128) % 2))

\* x >> n on u8.
Shr(m, n) == m \div (2 ^ n)

\* What a scalar call that panicked leaves in place of a u8.
Panicked == 0 - 1

\* x * y on u8: a product above 255 panics ("attempt to multiply with
\* overflow") in a build with overflow checks and wraps at 8 bits in one
\* without.
MulU8(m, n) ==
    IF m * n <= 255
    THEN m * n
    ELSE IF overflow_checks THEN Panicked ELSE (m * n) % 256

\* res ^= v, where v is a product: not reached when an earlier line
\* panicked, and unwinding when the product did.
XorAssign(res, v) ==
    IF res < 0 \/ v < 0 THEN Panicked ELSE BitXor(res, v)

(***************************************************************************)
(* Scalar field operations.                                                *)
(***************************************************************************)

neg(p) == p

add_or(p, q) == p + q - BitAnd(p, q)

add(p, q) == BitXor(p, q)

sub(p, q) == BitXor(p, q)

\* The partial product (x & 2^i) * y as the mathematical integer, before it
\* is stored in a u8.
partial(p, q, i) == BitAnd(p, 2 ^ i) * q

\* The carryless product: res after each of the four accumulation lines
\* (Panicked from the line whose product overflowed on).
mul_acc(p, q) ==
    LET r0 == MulU8(BitAnd(p, 1), q)
        r1 == XorAssign(r0, MulU8(BitAnd(p, 2), q))
        r2 == XorAssign(r1, MulU8(BitAnd(p, 4), q))
        r3 == XorAssign(r2, MulU8(BitAnd(p, 8), q))
    IN  <<r0, r1, r2, r3>>

\* The reduction modulo t^4 + t + 1 of the accumulated product.
reduce(res) ==
    LET first_4_bits == BitAnd(res, 240)
        overflow_bits == BitXor(Shr(first_4_bits, 4), Shr(first_4_bits, 3))
    IN  BitAnd(BitXor(res, overflow_bits), 15)

reduce_shift2(res) ==
    LET first_4_bits == BitAnd(res, 240)
        overflow_bits == BitXor(Shr(first_4_bits, 4), Shr(first_4_bits, 2))
    IN  BitAnd(BitXor(res, overflow_bits), 15)

reduce_nomask(res) ==
    LET first_4_bits == BitAnd(res, 240)
        overflow_bits == BitXor(Shr(first_4_bits, 4), Shr(first_4_bits, 3))
    IN  BitXor(res, overflow_bits)

mul_shift2(p, q) ==
    IF p < 0 \/ q < 0 \/ mul_acc(p, q)[4] < 0
    THEN Panicked
    ELSE reduce_shift2(mul_acc(p, q)[4])

mul_nomask(p, q) ==
    IF p < 0 \/ q < 0 \/ mul_acc(p, q)[4] < 0
    THEN Panicked
    ELSE reduce_nomask(mul_acc(p, q)[4])

\* A call whose operand is the result of a call that panicked is never
\* made (inv and div chain calls of mul): the panic goes on unwinding.
mul(p, q) ==
    IF p < 0 \/ q < 0
    THEN Panicked
    ELSE IF mul_acc(p, q)[4] < 0
    THEN Panicked                    \* a product overflowed (lines 27-30)
    ELSE reduce(mul_acc(p, q)[4])

inv_x12(p) ==
    LET x2 == mul(p, p)
        x4 == mul(x2, x2)
        x6 == mul(x2, x4)
        x8 == mul(x4, x4)
        x12 == mul(x8, x4)
    IN  x12

inv(p) ==
    LET x2 == mul(p, p)
        x4 == mul(x2, x2)
        x6 == mul(x2, x4)
        x8 == mul(x4, x4)
        x14 == mul(x8, x6)
    IN  x14

div_swapped(p, q) == mul(q, inv(p))

div(p, q) == mul(p, inv(q))

\* The intermediate values of one call of mul: the four partial products as
\* integers and the four values of the u8 accumulator.
mul_steps(p, q) ==
    [prod |-> [i \in 0..3 |-> partial(p, q, i)], acc |-> mul_acc(p, q)]

(***************************************************************************)
(* The scalar layer as a state machine: the operands are field elements,   *)
(* one operation is called on them, and its result may be fed to the next  *)
(* call as inv and div feed the results of mul to mul.                     *)
(***************************************************************************)

Elem == 0..15

NoMatrix == <<>>

NoSteps == [prod |-> [i \in 0..3 |-> 0], acc |-> <<0, 0, 0, 0>>]

InitField ==
    /\ op = "start"
    /\ x \in Elem /\ y \in Elem /\ z \in Elem
    /\ a = NoMatrix /\ b = NoMatrix /\ c = NoMatrix /\ vec = <<>>
    /\ out = 0
    /\ steps = NoSteps
    /\ overflow_checks \in BOOLEAN

Call_neg ==
    /\ op = "start"
    /\ op' = "neg" /\ out' = neg(x)
    /\ UNCHANGED <<x, y, z, a, b, c, vec, steps, overflow_checks>>

Call_add ==
    /\ op = "start"
    /\ op' = "add" /\ out' = add(x, y)
    /\ UNCHANGED <<x, y, z, a, b, c, vec, steps, overflow_checks>>

Call_sub ==
    /\ op = "start"
    /\ op' = "sub" /\ out' = sub(x, y)
    /\ UNCHANGED <<x, y, z, a, b, c, vec, steps, overflow_checks>>

Call_mul ==
    /\ op = "start"
    /\ op' = "mul" /\ out' = mul(x, y) /\ steps' = mul_steps(x, y)
    /\ UNCHANGED <<x, y, z, a, b, c, vec, overflow_checks>>

Call_inv ==
    /\ op = "start"
    /\ op' = "inv" /\ out' = inv(x)
    /\ UNCHANGED <<x, y, z, a, b, c, vec, steps, overflow_checks>>

Call_div ==
    /\ op = "start"
    /\ op' = "div" /\ out' = div(x, y)
    /\ UNCHANGED <<x, y, z, a, b, c, vec, steps, overflow_checks>>

\* The result of a call becomes the first operand of the next one.  A call
\* that panicked has no result: the panic unwinds and no next call is made.
Feed ==
    /\ op \in {"neg", "add", "sub", "mul", "inv", "div"}
    /\ out # Panicked
    /\ op' = "start" /\ x' = out /\ out' = 0 /\ steps' = NoSteps
    /\ UNCHANGED <<y, z, a, b, c, vec, overflow_checks>>

NextField ==
    \/ Call_neg \/ Call_add \/ Call_sub \/ Call_mul \/ Call_inv \/ Call_div
    \/ Feed

SpecField == InitField /\ [][NextField]_vars

(***************************************************************************)
(* Dynamically sized matrix and vector operations.  A call either panics   *)
(* (a failed assert_eq!, or an index out of bounds) or returns a value;    *)
(* writes counts the result cells it has assigned by then.                 *)
(***************************************************************************)

Panic == [panic |-> TRUE, val |-> <<>>, writes |-> 0]

Ok(m, w) == [panic |-> FALSE, val |-> m, writes |-> w]

Min(m, n) == IF m <= n THEN m ELSE n

\* The sum of the lengths of the rows of a matrix.
RECURSIVE Cells(_)
Cells(m) == IF m = <<>> THEN 0 ELSE Len(Head(m)) + Cells(Tail(m))

\* a.iter().zip(b.iter()) over rows and over the cells of each pair of rows.
zip_map_add(A, B) ==
    [i \in 1..Min(Len(A), Len(B)) |->
        [j \in 1..Min(Len(A[i]), Len(B[i])) |-> add(A[i][j], B[i][j])]]

zip_map_sub(A, B) ==
    [i \in 1..Min(Len(A), Len(B)) |->
        [j \in 1..Min(Len(A[i]), Len(B[i])) |-> sub(A[i][j], B[i][j])]]

matrix_add_noassert(A, B) == LET r == zip_map_add(A, B) IN Ok(r, Cells(r))

matrix_add(A, B) ==
    IF Len(A) # Len(B)
    THEN Panic                       \* assert_eq!(a.len(), b.len())
    ELSE IF Len(A) = 0
    THEN Panic                       \* a[0]: index out of bounds
    ELSE IF Len(A[1]) # Len(B[1])
    THEN Panic                       \* assert_eq!(a[0].len(), b[0].len())
    ELSE LET r == zip_map_add(A, B) IN Ok(r, Cells(r))

matrix_sub(A, B) ==
    IF Len(A) # Len(B)
    THEN Panic
    ELSE IF Len(A) = 0
    THEN Panic
    ELSE IF Len(A[1]) # Len(B[1])
    THEN Panic
    ELSE LET r == zip_map_sub(A, B) IN Ok(r, Cells(r))

matrix_neg(A) ==
    LET r == [i \in 1..Len(A) |-> [j \in 1..Len(A[i]) |-> neg(A[i][j])]]
    IN  Ok(r, Cells(r))

\* The state of the loops of a multiplication: the result so far, the
\* number of assignments to its cells, and whether a call of mul panicked.
Started(result) == [val |-> result, writes |-> 0, panic |-> FALSE]

\* return result, unless the loops were left by a panic.
Finished(st) ==
    IF st.panic
    THEN [panic |-> TRUE, val |-> <<>>, writes |-> st.writes]
    ELSE Ok(st.val, st.writes)

Assign2_overwrite(st, i, j, m) ==
    IF m < 0
    THEN [st EXCEPT !.panic = TRUE]
    ELSE [st EXCEPT !.val[i][j] = m, !.writes = @ + 1]

\* result[i][j] = add(result[i][j], m), m the value of a call of mul, whose
\* panic unwinds before the assignment.
AddAssign2(st, i, j, m) ==
    IF m < 0
    THEN [st EXCEPT !.panic = TRUE]
    ELSE [st EXCEPT !.val[i][j] = add(@, m), !.writes = @ + 1]

Assign1_overwrite(st, i, m) ==
    IF m < 0
    THEN [st EXCEPT !.panic = TRUE]
    ELSE [st EXCEPT !.val[i] = m, !.writes = @ + 1]

\* result[i] = add(result[i], m), likewise.
AddAssign1(st, i, m) ==
    IF m < 0
    THEN [st EXCEPT !.panic = TRUE]
    ELSE [st EXCEPT !.val[i] = add(@, m), !.writes = @ + 1]

\* vec![vec![0; cols]; rows]
zeros(rows, cols) == [i \in 1..rows |-> [j \in 1..cols |-> 0]]

\* for k in 0..cols_a: result[i][j] = add(result[i][j], mul(a[i][k], b[k][j]))
RECURSIVE matrix_mul_k(_, _, _, _, _, _)
matrix_mul_k(A, B, st, i, j, k) ==
    IF st.panic \/ k > Len(A[1])
    THEN st
    ELSE matrix_mul_k(A, B, AddAssign2(st, i, j, mul(A[i][k], B[k][j])),
                      i, j, k + 1)

\* for j in 0..cols_b
RECURSIVE matrix_mul_j(_, _, _, _, _)
matrix_mul_j(A, B, st, i, j) ==
    IF st.panic \/ j > Len(B[1])
    THEN st
    ELSE matrix_mul_j(A, B, matrix_mul_k(A, B, st, i, j, 1), i, j + 1)

\* for i in 0..rows_a
RECURSIVE matrix_mul_i(_, _, _, _)
matrix_mul_i(A, B, st, i) ==
    IF st.panic \/ i > Len(A)
    THEN st
    ELSE matrix_mul_i(A, B, matrix_mul_j(A, B, st, i, 1), i + 1)

matrix_mul_loops(A, B) ==
    Finished(matrix_mul_i(A, B, Started(zeros(Len(A), Len(B[1]))), 1))

matrix_mul(A, B) ==
    IF Len(A) = 0
    THEN Panic                       \* a[0]: index out of bounds
    ELSE IF Len(A[1]) # Len(B)
    THEN Panic                       \* assert_eq!(a[0].len(), b.len())
    ELSE IF Len(B) = 0
    THEN Panic                       \* b[0]: index out of bounds
    ELSE matrix_mul_loops(A, B)

\* for i in 0..rows_matrix: result[j] = add(result[j], mul(vec[i], matrix[i][j]))
RECURSIVE vector_matrix_mul_i(_, _, _, _, _)
vector_matrix_mul_i(v, M, st, j, i) ==
    IF st.panic \/ i > Len(M)
    THEN st
    ELSE vector_matrix_mul_i(v, M, AddAssign1(st, j, mul(v[i], M[i][j])),
                             j, i + 1)

\* for j in 0..cols_matrix
RECURSIVE vector_matrix_mul_j(_, _, _, _)
vector_matrix_mul_j(v, M, st, j) ==
    IF st.panic \/ j > Len(M[1])
    THEN st
    ELSE vector_matrix_mul_j(v, M, vector_matrix_mul_i(v, M, st, j, 1), j + 1)

vector_matrix_mul_loops(v, M) ==
    Finished(vector_matrix_mul_j(v, M, Started([j \in 1..Len(M[1]) |-> 0]), 1))

vector_matrix_mul(v, M) ==
    IF Len(v) # Len(M)
    THEN Panic                       \* assert_eq!(vec.len(), matrix.len())
    ELSE IF Len(M) = 0
    THEN Panic                       \* matrix[0]: index out of bounds
    ELSE vector_matrix_mul_loops(v, M)

\* for k in 0..cols_matrix: result[i] = add(result[i], mul(matrix[i][k], vec[k]))
RECURSIVE matrix_vector_mul_k(_, _, _, _, _)
matrix_vector_mul_k(M, v, st, i, k) ==
    IF st.panic \/ k > Len(M[1])
    THEN st
    ELSE matrix_vector_mul_k(M, v, AddAssign1(st, i, mul(M[i][k], v[k])),
                             i, k + 1)

\* for i in 0..rows_matrix
RECURSIVE matrix_vector_mul_i(_, _, _, _)
matrix_vector_mul_i(M, v, st, i) ==
    IF st.panic \/ i > Len(M)
    THEN st
    ELSE matrix_vector_mul_i(M, v, matrix_vector_mul_k(M, v, st, i, 1), i + 1)

matrix_vector_mul_loops(M, v) ==
    Finished(matrix_vector_mul_i(M, v, Started([i \in 1..Len(M) |-> 0]), 1))

matrix_vector_mul(M, v) ==
    IF Len(M) = 0
    THEN Panic                       \* matrix[0]: index out of bounds
    ELSE IF Len(M[1]) # Len(v)
    THEN Panic                       \* assert_eq!(matrix[0].len(), vec.len())
    ELSE matrix_vector_mul_loops(M, v)

(***************************************************************************)
(* The linear-algebra layer as state machines.  The operands are drawn     *)
(* from families of rectangular matrices and vectors of field elements:    *)
(* the cells of Mat(r, n, s, t), read row by row, are s, s + t, s + 2t,    *)
(* ... modulo 16.  The matrices of the unit tests are of this form:        *)
(* [[2],[8]] = Mat(2,1,2,6), [[3,1]] = Mat(1,2,3,14),                      *)
(* [[0,1],[2,3]] = Mat(2,2,0,1), [0,2] = Vec(2,0,2).                       *)
(***************************************************************************)

\* The largest number of rows, columns or vector cells of an operand.
MaxDim == 2

Mat(r, n, s, t) ==
    [i \in 1..r |-> [j \in 1..n |-> (s + t * ((i - 1) * n + (j - 1))) % 16]]

Vec(n, s, t) == [i \in 1..n |-> (s + t * (i - 1)) % 16]

\* Every shape a Vec<Vec<u8>> with rows of equal length can have: no row at
\* all, or r >= 1 rows of n >= 0 cells.
Mats(S, T) ==
    {<<>>} \cup
    {Mat(r, n, s, t) : r \in 1..MaxDim, n \in 0..MaxDim, s \in S, t \in T}

Vecs(S, T) == {Vec(n, s, t) : n \in 0..MaxDim, s \in S, t \in T}

NoCall == [panic |-> FALSE, val |-> <<>>, writes |-> 0]

Call_matrix_add ==
    /\ op = "start"
    /\ op' = "matrix_add" /\ out' = matrix_add(a, b)
    /\ UNCHANGED <<x, y, z, a, b, c, vec, steps, overflow_checks>>

Call_matrix_sub ==
    /\ op = "start"
    /\ op' = "matrix_sub" /\ out' = matrix_sub(a, b)
    /\ UNCHANGED <<x, y, z, a, b, c, vec, steps, overflow_checks>>

Call_matrix_neg ==
    /\ op = "start"
    /\ op' = "matrix_neg" /\ out' = matrix_neg(a)
    /\ UNCHANGED <<x, y, z, a, b, c, vec, steps, overflow_checks>>

Call_matrix_mul ==
    /\ op = "start"
    /\ op' = "matrix_mul" /\ out' = matrix_mul(a, b)
    /\ UNCHANGED <<x, y, z, a, b, c, vec, steps, overflow_checks>>

Call_vector_matrix_mul ==
    /\ op = "start"
    /\ op' = "vector_matrix_mul" /\ out' = vector_matrix_mul(vec, b)
    /\ UNCHANGED <<x, y, z, a, b, c, vec, steps, overflow_checks>>

Call_matrix_vector_mul ==
    /\ op = "start"
    /\ op' = "matrix_vector_mul" /\ out' = matrix_vector_mul(a, vec)
    /\ UNCHANGED <<x, y, z, a, b, c, vec, steps, overflow_checks>>

\* A panic unwinds through the caller: the second call is not made.
Then_matrix_mul_right(first, C) ==
    IF first.panic THEN Panic ELSE matrix_mul(first.val, C)

Then_matrix_mul_left(A, second) ==
    IF second.panic THEN Panic ELSE matrix_mul(A, second.val)

\* matrix_mul(&matrix_mul(&a, &b), &c)
Call_matrix_mul_left_first ==
    /\ op = "start"
    /\ op' = "(ab)c" /\ out' = Then_matrix_mul_right(matrix_mul(a, b), c)
    /\ UNCHANGED <<x, y, z, a, b, c, vec, steps, overflow_checks>>

\* matrix_mul(&a, &matrix_mul(&b, &c))
Call_matrix_mul_right_first ==
    /\ op = "start"
    /\ op' = "a(bc)" /\ out' = Then_matrix_mul_left(a, matrix_mul(b, c))
    /\ UNCHANGED <<x, y, z, a, b, c, vec, steps, overflow_checks>>

Scalars0 == x = 0 /\ y = 0 /\ z = 0 /\ steps = NoSteps

\* Either build.
AnyBuild == overflow_checks \in BOOLEAN

\* Every pair of shapes, conformant or not, and every vector length.
InitShape ==
    /\ op = "start" /\ out = NoCall /\ Scalars0 /\ AnyBuild
    /\ a \in Mats({1}, {1})
    /\ b \in Mats({2}, {3})
    /\ c = NoMatrix
    /\ vec \in Vecs({3}, {5})

NextShape ==
    \/ Call_matrix_add \/ Call_matrix_sub \/ Call_matrix_neg
    \/ Call_matrix_mul
    \/ Call_vector_matrix_mul \/ Call_matrix_vector_mul

SpecShape == InitShape /\ [][NextShape]_vars

\* Pairs with cols(a) = rows(b): a has r >= 1 rows of n >= 0 cells, and b
\* has n rows (none when n = 0).
InitMul ==
    /\ op = "start" /\ out = NoCall /\ Scalars0 /\ AnyBuild
    /\ a \in Mats(Elem, {1, 6}) \ {<<>>}
    /\ b \in Mats(Elem, {1, 14})
    /\ Len(a[1]) = Len(b)
    /\ c = NoMatrix /\ vec = <<>>

NextMul == Call_matrix_mul

SpecMul == InitMul /\ [][NextMul]_vars

\* One vector and one matrix (a and b are the same matrix) of any shapes.
InitVector ==
    /\ op = "start" /\ out = NoCall /\ Scalars0 /\ AnyBuild
    /\ a \in Mats(Elem, {1, 6})
    /\ b = a
    /\ c = NoMatrix
    /\ vec \in Vecs(Elem, {2, 5})

NextVector == Call_vector_matrix_mul \/ Call_matrix_vector_mul

SpecVector == InitVector /\ [][NextVector]_vars

\* Triples with cols(a) = rows(b) and cols(b) = rows(c).
InitAssoc ==
    /\ op = "start" /\ out = NoCall /\ Scalars0 /\ AnyBuild
    /\ a \in Mats({1, 4, 6, 11, 13}, {1}) \ {<<>>}
    /\ b \in Mats({0, 2, 7, 9, 15}, {3}) \ {<<>>}
    /\ c \in Mats({3, 5, 8, 14}, {6})
    /\ Len(a[1]) = Len(b)
    /\ Len(b[1]) = Len(c)
    /\ vec = <<>>

NextAssoc == Call_matrix_mul_left_first \/ Call_matrix_mul_right_first

SpecAssoc == InitAssoc /\ [][NextAssoc]_vars

(***************************************************************************)
(* Reference arithmetic of GF(2)[t] / (t^4 + t + 1), on sets of exponents. *)
(***************************************************************************)

\* The exponents of the polynomial a field element stands for.
Exps(n) == {i \in 0..3 : Bit(n, i) = 1}

\* The exponents of the product of two polynomials over GF(2): t^k is
\* present when an odd number of pairs of terms multiply to it.
PolyProduct(p, q) ==
    {k \in 0..6 :
        Cardinality({ij \in Exps(p) \X Exps(q) : ij[1] + ij[2] = k}) % 2 = 1}

\* One step of the division by f(t): a term t^k, k >= 4, is cancelled by
\* adding t^(k-4) * f(t) = t^k + t^(k-3) + t^(k-4).
Cancel(D, k) ==
    IF k \in D
    THEN (D \ {k, k - 3, k - 4}) \cup ({k, k - 3, k - 4} \ D)
    ELSE D

PolyMod(D) == Cancel(Cancel(Cancel(D, 6), 5), 4)

Value(D) ==
    (IF 0 \in D THEN 1 ELSE 0) + (IF 1 \in D THEN 2 ELSE 0)
    + (IF 2 \in D THEN 4 ELSE 0) + (IF 3 \in D THEN 8 ELSE 0)

RefMul(p, q) == Value(PolyMod(PolyProduct(p, q)))

\* p^14 in the reference arithmetic, along the chain 1, 2, 3, 6, 7, 14.
RefPow14(p) ==
    LET p2 == RefMul(p, p)
        p3 == RefMul(p2, p)
        p6 == RefMul(p3, p3)
        p7 == RefMul(p6, p)
    IN  RefMul(p7, p7)

(***************************************************************************)
(* Properties of the scalar layer.                                         *)
(***************************************************************************)

\* C1: for every x, y in [0,15], mul(x, y) is the carryless polynomial
\* product of x and y reduced modulo t^4 + t + 1, as the reference
\* arithmetic on exponent sets computes it; in particular mul(2,2) = 4,
\* mul(0xC,3) = 7, mul(0xC,7) = 2 and mul(0xF,0xF) = 0xA.
C1_MulIsReducedProduct ==
    op = "mul" =>
        /\ out = RefMul(x, y)
        /\ (x = 2 /\ y = 2) => out = 4
        /\ (x = 12 /\ y = 3) => out = 7
        /\ (x = 12 /\ y = 7) => out = 2
        /\ (x = 15 /\ y = 15) => out = 10

C1_Witness == op = "mul" /\ x = 15 /\ y = 15 /\ out = 10

\* C2: for every nonzero x, mul(x, inv(x)) = 1, inv(x) being x^14; in
\* particular inv(1) = 1, inv(2) = 9, inv(3) = 0xE, inv(4) = 0xD,
\* inv(5) = 0xB, inv(6) = 7 and inv(8) = 0xF.
C2_InvIsInverse ==
    op = "inv" =>
        /\ x # 0 => mul(x, out) = 1
        /\ out = RefPow14(x)
        /\ x = 1 => out = 1
        /\ x = 2 => out = 9
        /\ x = 3 => out = 14
        /\ x = 4 => out = 13
        /\ x = 5 => out = 11
        /\ x = 6 => out = 7
        /\ x = 8 => out = 15

C2_Witness == op = "inv" /\ x = 8 /\ out = 15

\* C3: degenerate input is no error: inv(0) returns 0, div(x, 0) returns 0
\* (= mul(x, inv(0))) for every x, both calls return a field element, and
\* div(x, y) = mul(x, inv(y)) for all x, y.
C3_DegenerateReturnsZero ==
    /\ (op = "inv" /\ x = 0) => out = 0
    /\ op = "inv" => out \in Elem
    /\ op = "div" =>
        /\ out \in Elem
        /\ y = 0 => (out = 0 /\ out = mul(x, inv(0)))
        /\ out = mul(x, inv(y))

C3_Witness == op = "div" /\ x = 9 /\ y = 0 /\ out = 0

\* C5: the field axioms over [0,15]: add(x,x) = 0, add(x,0) = x,
\* mul(x,1) = x, add and mul commutative and associative,
\* sub(x,y) = add(x,y), and mul distributes over add.
C5_FieldAxioms ==
    /\ op = "add" =>
        /\ x = y => out = 0
        /\ y = 0 => out = x
        /\ out = add(y, x)
        /\ add(out, z) = add(x, add(y, z))
    /\ op = "sub" => out = add(x, y)
    /\ op = "mul" =>
        /\ y = 1 => out = x
        /\ out = mul(y, x)
        /\ mul(out, z) = mul(x, mul(y, z))
        /\ mul(x, add(y, z)) = add(out, mul(x, z))

C5_Witness == op = "mul" /\ x = 12 /\ y = 3 /\ z = 7 /\ out = 7

\* C10: no step of mul overflows its 8-bit cell: each partial product
\* (x & 2^i) * y and each value of the accumulator is at most 127, the
\* value returned is in [0,15], and so is every value a chain of neg, add,
\* sub, mul, inv and div produces from operands in [0,15]; so no call
\* panics in a build with overflow checks, and none wraps in one without.
C10_NoOverflow ==
    /\ x \in Elem /\ y \in Elem /\ out \in Elem
    /\ op = "mul" =>
        /\ \A i \in 0..3 : steps.prod[i] \in 0..127
        /\ \A i \in 1..4 : steps.acc[i] \in 0..127
        /\ out # Panicked /\ out <= 15

C10_Witness ==
    op = "mul" /\ x = 15 /\ y = 15 /\ steps.prod[3] = 120 /\ steps.acc[4] = 85

(***************************************************************************)
(* Properties of the linear-algebra layer.                                 *)
(***************************************************************************)

\* The XOR of f[1], ..., f[n], bit by bit: bit e of the sum is set when an
\* odd number of the terms have it set.
XorSum(f, n) ==
    Value({e \in 0..3 : Cardinality({k \in 1..n : Bit(f[k], e) = 1}) % 2 = 1})

\* The vector v as a matrix of one column.
Column(v) == [i \in 1..Len(v) |-> <<v[i]>>]

\* C4: a binary operation called with incompatible dimensions panics
\* before it computes any result cell and returns nothing: matrix_add and
\* matrix_sub when the row counts or the column counts differ, matrix_mul
\* when cols(A) # rows(B), vector_matrix_mul when len(v) # rows(M),
\* matrix_vector_mul when cols(M) # len(v).  (A matrix with no row has no
\* column count; matrix_mul and matrix_vector_mul panic on it as well.)
C4_ShapeMismatchPanics ==
    /\ (/\ op \in {"matrix_add", "matrix_sub"}
        /\ \/ Len(a) # Len(b)
           \/ (Len(a) >= 1 /\ Len(b) >= 1 /\ Len(a[1]) # Len(b[1])))
       => out = Panic
    /\ (op = "matrix_mul" /\ Len(a) >= 1 /\ Len(a[1]) # Len(b))
       => out = Panic
    /\ (op = "matrix_mul" /\ Len(a) = 0) => out = Panic
    /\ (op = "vector_matrix_mul" /\ Len(vec) # Len(b)) => out = Panic
    /\ (op = "matrix_vector_mul" /\ Len(a) >= 1 /\ Len(a[1]) # Len(vec))
       => out = Panic
    /\ (op = "matrix_vector_mul" /\ Len(a) = 0) => out = Panic

C4_Witness ==
    /\ op = "matrix_add"
    /\ Len(a) = 2 /\ Len(b) = 2 /\ Len(a[1]) = 2 /\ Len(b[1]) = 1
    /\ out.panic /\ out.writes = 0

\* C6: for A and B with cols(A) = rows(B), matrix_mul(A, B) returns a
\* rows(A) x cols(B) matrix whose cell [i][j] is the XOR-sum over k of
\* mul(A[i][k], B[k][j]); matrix_mul([[2],[8]], [[3,1]]) = [[6,2],[11,8]].
C6_MatrixMulIsProduct ==
    (op = "matrix_mul" /\ Len(a) >= 1 /\ Len(b) >= 1 /\ Len(a[1]) = Len(b)) =>
        /\ ~out.panic
        /\ Len(out.val) = Len(a)
        /\ \A i \in 1..Len(a) :
            /\ Len(out.val[i]) = Len(b[1])
            /\ \A j \in 1..Len(b[1]) :
                out.val[i][j] =
                    XorSum([k \in 1..Len(b) |-> mul(a[i][k], b[k][j])], Len(b))
        /\ (a = <<<<2>>, <<8>>>> /\ b = <<<<3, 1>>>>)
            => out.val = <<<<6, 2>>, <<11, 8>>>>

C6_Witness ==
    /\ op = "matrix_mul"
    /\ a = <<<<2, 8>>, <<14, 4>>>> /\ b = <<<<3, 1>>, <<15, 13>>>>
    /\ ~out.panic /\ out.writes = 8

\* C7: matrix multiplication is associative: for A, B, C with
\* cols(A) = rows(B) and cols(B) = rows(C), matrix_mul(matrix_mul(A,B), C)
\* and matrix_mul(A, matrix_mul(B,C)) have the same outcome, and it is a
\* matrix whenever C has a row.
C7_MatrixMulAssociative ==
    /\ op = "(ab)c" =>
        LET r == Then_matrix_mul_left(a, matrix_mul(b, c))
        IN  /\ out.panic = r.panic
            /\ out.val = r.val
            /\ Len(c) >= 1 => ~out.panic
    /\ op = "a(bc)" =>
        LET l == Then_matrix_mul_right(matrix_mul(a, b), c)
        IN  /\ out.panic = l.panic
            /\ out.val = l.val
            /\ Len(c) >= 1 => ~out.panic

C7_Witness ==
    /\ op = "(ab)c"
    /\ Len(a) = 2 /\ Len(b) = 2 /\ Len(c) = 2
    /\ Len(a[1]) = 2 /\ Len(b[1]) = 2 /\ Len(c[1]) = 2
    /\ ~out.panic /\ out.val[1][1] # 0 /\ out.val[2][2] # 0

\* vector_matrix_mul(v, M) is the single row of matrix_mul([v], M).
RowAgrees ==
    LET w == matrix_mul(<<vec>>, b)
    IN  /\ ~out.panic
        /\ Len(out.val) = Len(b[1])
        /\ ~w.panic
        /\ out.val = w.val[1]

\* matrix_vector_mul(M, v)[i] is matrix_mul(M, column(v))[i][0].
ColumnAgrees ==
    LET w == matrix_mul(a, Column(vec))
    IN  /\ ~out.panic
        /\ Len(out.val) = Len(a)
        /\ ~w.panic
        /\ \A i \in 1..Len(a) : out.val[i] = w.val[i][1]

\* C8 as stated: for every v and M with len(v) = rows(M),
\* vector_matrix_mul(v, M) has length cols(M) and is the single row of
\* matrix_mul([v], M); for every M and v with cols(M) = len(v),
\* matrix_vector_mul(M, v) has length rows(M) and its i-th cell is
\* matrix_mul(M, column(v))[i][0].
C8_Original ==
    /\ (op = "vector_matrix_mul" /\ Len(b) >= 1 /\ Len(vec) = Len(b))
       => RowAgrees
    /\ (op = "matrix_vector_mul" /\ Len(a) >= 1 /\ Len(a[1]) = Len(vec))
       => ColumnAgrees

\* C8 (amended): the same for every non-empty v.  For the empty v and a
\* matrix of r >= 1 empty rows, matrix_vector_mul returns r zeros while
\* matrix_mul panics on column(v), which has no row.
C8_VectorOpsAgreeWithMatrixMul ==
    /\ (op = "vector_matrix_mul" /\ Len(vec) >= 1 /\ Len(vec) = Len(b))
       => RowAgrees
    /\ (/\ op = "matrix_vector_mul" /\ Len(vec) >= 1
        /\ Len(a) >= 1 /\ Len(a[1]) = Len(vec))
       => ColumnAgrees

C8_Witness ==
    /\ op = "matrix_vector_mul"
    /\ a = <<<<0, 1>>, <<2, 3>>>> /\ vec = <<0, 2>>
    /\ out.val = <<2, 6>>

\* C9: for every v and M with len(v) = rows(M), the vector
\* vector_matrix_mul(v, M) returns has length 1, as test_vector_matrix_mul
\* asserts (result.len() == rows_expected, rows_expected = 1).  The code
\* returns vec![0; cols_matrix]: on the test's own operands, v = [0, 2] and
\* M = [[0, 1], [2, 3]], the result is [4, 6], of length 2, and the test fails.
C9_Original ==
    (op = "vector_matrix_mul" /\ Len(b) >= 1 /\ Len(vec) = Len(b)) =>
        /\ ~out.panic
        /\ Len(out.val) = 1

\* The call of test_vector_matrix_mul and what it returns.
C9_Witness ==
    /\ op = "vector_matrix_mul"
    /\ vec = <<0, 2>> /\ b = <<<<0, 1>>, <<2, 3>>>>
    /\ out.val = <<4, 6>> /\ Len(out.val) = 2

====
